---------------------------- MODULE Spec2Model ----------------------------
(***************************************************************************)
(* A model of src/newsletter_agent.py: the bounded tool-call loop          *)
(* (create_search_agent), the three-stage pipeline (main) and the          *)
(* document renderer (generate_pdf_report).                                *)
(*                                                                         *)
(* Python str values are TLA+ strings; TLC evaluates Len, \o and SubSeq    *)
(* on them, so slicing, splitting and replacing are modelled character by  *)
(* character.                                                              *)
(***************************************************************************)
EXTENDS Naturals, Sequences, FiniteSets, TLC

VARIABLES
    credential,            \* os.getenv('OLLAMA_API_KEY')
    pc,                    \* position of the process
    stage,                 \* pipeline stage whose create_search_agent call is active
    query,                 \* create_search_agent: parameter query
    context,               \* create_search_agent: parameter context
    messages,              \* create_search_agent: local messages
    conversation_history,  \* create_search_agent: local conversation_history
    iteration,             \* create_search_agent: local iteration
    response,              \* create_search_agent: local response
    tc,                    \* index of the tool call the for loop is at
    ret,                   \* value the last create_search_agent call returned
    news_data,             \* main: local news_data
    ranked_news,           \* main: local ranked_news
    detailed_summaries,    \* main: local detailed_summaries
    content,               \* generate_pdf_report: parameter content
    elements,              \* generate_pdf_report: local elements
    pdf_file,              \* main: local pdf_file
    outfile,               \* the output artifact on disk
    chat_calls,            \* calls of client.chat made by the active create_search_agent
    invoked,               \* the last tool call handled and what the tool did
    failure,               \* the exception that ended the process, if any
    anomalies,             \* non-nominal collaborator behaviours so far
    budget                 \* how many of them this behaviour may contain

vars == <<credential, pc, stage, query, context, messages, conversation_history,
          iteration, response, tc, ret, news_data, ranked_news,
          detailed_summaries, content, elements, pdf_file, outfile,
          chat_calls, invoked, failure, anomalies, budget>>

-----------------------------------------------------------------------------
(* Bounds of the exploration.                                              *)

\* Most tool calls one reply of the chat service requests.
MaxCalls == 2
\* Most non-nominal collaborator behaviours in one run of the agent loop.
MaxAnomalies == 2
\* Most non-nominal collaborator behaviours in one run of the whole process.
MaxPipelineAnomalies == 1
\* Most pieces a renderer input is assembled from.
MaxPieces == 3

-----------------------------------------------------------------------------
(* Python values.                                                          *)

\* A str object.
Str(t) == [tag |-> "str", s |-> t]
\* The object None.
None == [tag |-> "none", s |-> ""]
\* An attribute the object does not have (hasattr is False).
Absent == [tag |-> "absent", s |-> ""]

\* Python truthiness of a value that is a str, None or missing.
Truthy(v) == v.tag = "str" /\ v.s # ""

Min(a, b) == IF a <= b THEN a ELSE b

\* s[:n]
Prefix(s, n) == SubSeq(s, 1, Min(n, Len(s)))
\* s[n:]
Suffix(s, n) == SubSeq(s, Min(n, Len(s)) + 1, Len(s))
\* s[i] (1-based)
CharAt(s, i) == SubSeq(s, i, i)

\* s.startswith(p)
StartsWith(s, p) == Len(p) <= Len(s) /\ SubSeq(s, 1, Len(p)) = p

\* Index of the first occurrence of sub in s, 0 when there is none.
Find(s, sub) ==
    LET hits == {j \in 1..(Len(s) + 1) :
                    /\ j + Len(sub) - 1 <= Len(s)
                    /\ SubSeq(s, j, j + Len(sub) - 1) = sub}
    IN  IF hits = {} THEN 0 ELSE CHOOSE j \in hits : \A k \in hits : j <= k

\* sub in s
Contains(s, sub) == Find(s, sub) # 0

\* s.split(sep): left to right, occurrences do not overlap.
RECURSIVE Split(_, _)
Split(s, sep) ==
    LET j == Find(s, sep)
    IN  IF j = 0 THEN <<s>>
        ELSE <<SubSeq(s, 1, j - 1)>> \o Split(Suffix(s, j + Len(sep) - 1), sep)

\* s.replace(old, new): left to right, occurrences do not overlap.
RECURSIVE Replace(_, _, _)
Replace(s, old, new) ==
    LET j == Find(s, old)
    IN  IF j = 0 THEN s
        ELSE SubSeq(s, 1, j - 1) \o new
               \o Replace(Suffix(s, j + Len(old) - 1), old, new)

Whitespace == {" ", "\t", "\n", "\r", "\f"}

\* s.strip()
Strip(s) ==
    LET keep == {i \in 1..Len(s) : CharAt(s, i) \notin Whitespace}
    IN  IF keep = {} THEN ""
        ELSE LET lo == CHOOSE i \in keep : \A k \in keep : i <= k
                 hi == CHOOSE i \in keep : \A k \in keep : k <= i
             IN  SubSeq(s, lo, hi)

UpperCase == "ABCDEFGHIJKLMNOPQRSTUVWXYZ"
LowerCase == "abcdefghijklmnopqrstuvwxyz"

LowerChar(c) ==
    LET k == Find(UpperCase, c) IN IF k = 0 THEN c ELSE CharAt(LowerCase, k)

\* s.lower()
RECURSIVE Lower(_)
Lower(s) == IF s = "" THEN "" ELSE LowerChar(CharAt(s, 1)) \o Lower(Suffix(s, 1))

\* n copies of s.
RECURSIVE Rep(_, _)
Rep(s, n) ==
    IF n = 0 THEN ""
    ELSE LET h == Rep(s, n \div 2)
         IN  h \o h \o (IF n % 2 = 1 THEN s ELSE "")


-----------------------------------------------------------------------------
(* generate_pdf_report.                                                    *)

\* Stands for the non-ASCII literal of lines 288 and 289 (the bullet glyph
\* followed by a space), which a module cannot spell.
BulletSpace == "o "

\* The clock readings datetime.now() may give: two consecutive days, each as
\* strftime('%Y%m%d') and as strftime('%B %d, %Y').
Dates == << [ymd |-> "20250131", long |-> "January 31, 2025"],
            [ymd |-> "20250201", long |-> "February 01, 2025"] >>

\* A Paragraph flowable with its style, and the Spacer.
Paragraph(text, style) == [kind |-> "Paragraph", text |-> text, style |-> style]
Spacer == [kind |-> "Spacer", text |-> "", style |-> "none"]

\* Lines 261-264: the elements every document starts with.
Preamble(today) ==
    << Paragraph("TechCrunch AI & Startup Newsletter", "title"),
       Paragraph("Weekly Report - " \o today, "heading"),
       Spacer >>

SkipOnlyEmpty(para) == para = ""

\* Lines 269-270: the paragraphs the loop passes over.
SkipParagraph(para) == Strip(para) = ""

\* Lines 273-279: the markup removed from a paragraph.
CleanMarkup(para) ==
    LET t0 == Strip(para)
        t1 == Replace(Replace(Replace(t0, "###", ""), "##", ""), "#", "")
        t2 == Replace(Replace(t1, "**", ""), "*", "")
    IN  Replace(Replace(Replace(Replace(t2, "[", ""), "]", ""), "(", ""), ")", "")

HeadingLeadIns == {"title:", "source:", "why it"}

StyleOfCaseSensitive(text) ==
    IF \E h \in HeadingLeadIns : StartsWith(text, h)
    THEN "heading" ELSE "body"

\* Lines 282-284: the style chosen for a cleaned paragraph.
StyleOf(text) ==
    IF \E h \in HeadingLeadIns : StartsWith(Lower(text), h)
    THEN "heading" ELSE "body"

\* Lines 287-289: bullet markers of a cleaned paragraph.
ConvertBullets(text) ==
    IF StartsWith(text, "- ")
    THEN Replace(BulletSpace \o Suffix(text, 2), "\n- ", "\n" \o BulletSpace)
    ELSE text

\* Lines 273-292: the element one kept paragraph becomes.
RenderParagraph(para) ==
    LET text == CleanMarkup(para)
    IN  Paragraph(ConvertBullets(text), StyleOf(text))

\* Lines 268-292: the loop over the paragraphs.
RECURSIVE RenderParagraphs(_)
RenderParagraphs(paragraphs) ==
    IF paragraphs = <<>> THEN <<>>
    ELSE (IF SkipParagraph(Head(paragraphs)) THEN <<>>
          ELSE <<RenderParagraph(Head(paragraphs))>>)
         \o RenderParagraphs(Tail(paragraphs))

\* Lines 261-292: the elements handed to doc.build for a str content.
BuildElements(text, today) ==
    Preamble(today) \o RenderParagraphs(Split(text, "\n\n"))

\* Line 223.
FileName(ymd) == "techcrunch_ai_newsletter_" \o ymd \o ".pdf"


-----------------------------------------------------------------------------
(* create_search_agent: constants and pure parts.                          *)

\* Line 54: max_iterations.
MaxIterations == 5
\* Line 128: the slice applied to a tool result.
TruncationCap == 8000

\* Line 43.
SystemPrompt ==
    "You are a tech news analyst. Focus on finding breakthrough n"
    \o "ews about AI and technology startups from TechCrunch."

\* A message without a tool_calls attribute, [], None, or a list of calls.
NoToolCalls == [tag |-> "absent", calls |-> <<>>]
NoneToolCalls == [tag |-> "none", calls |-> <<>>]
ToolCalls(calls) == [tag |-> "list", calls |-> calls]

\* A dict message {'role': ..., 'content': ...}.
Message(role, text) ==
    [role |-> role, content |-> Str(text), tool_calls |-> NoToolCalls]

\* Line 47: the content of the user message.
UserContent(q, c) == IF Truthy(c) THEN c.s \o "\n\n" \o q ELSE q

\* Lines 40-49.
InitialMessages(q, c) ==
    << Message("system", SystemPrompt), Message("user", UserContent(q, c)) >>

WhileConditionInclusive(i) == i <= MaxIterations

\* Line 57: the loop condition.
WhileCondition(i) == i < MaxIterations

\* Lines 102-104: the history after a reply.
HistoryAfter(history, reply) ==
    IF Truthy(reply.content) THEN Append(history, reply.content.s) ELSE history

RequestsSeveralTools(reply) ==
    reply.tool_calls.tag = "list" /\ Len(reply.tool_calls.calls) > 1

\* Line 108: whether the reply requests tool calls.
RequestsTools(reply) ==
    reply.tool_calls.tag = "list" /\ reply.tool_calls.calls # <<>>

\* Line 145: final_content.
FinalContent(reply) ==
    IF reply.content.tag # "absent" THEN reply.content ELSE Str("")

\* Line 146: the returned pair.
Returned(reply, history) ==
    [set |-> TRUE, final_content |-> FinalContent(reply), history |-> history]
NotReturned == [set |-> FALSE, final_content |-> Absent, history |-> <<>>]

\* The arguments mapping of a tool call, as its set of (key, value) pairs.
HasKey(args, k) == \E kv \in args : kv[1] = k

\* What one invocation of a tool did: returned an object whose str() is text,
\* or raised an exception whose str() is text.
ReturnedText(text) == [raised |-> FALSE, text |-> text]
RaisedText(text) == [raised |-> TRUE, text |-> text]

ToolMessageWithoutText(o) ==
    IF o.raised THEN Message("tool", "Error")
    ELSE Message("tool", Prefix(o.text, TruncationCap))

\* Lines 128-140: the tool message appended for an invocation.
ToolMessageFor(o) ==
    IF o.raised THEN Message("tool", "Error: " \o o.text)
    ELSE Message("tool", Prefix(o.text, TruncationCap))

\* Line 125 under line 128: str() of the dict built for an unknown tool.
UnknownToolText(name) == "{'error': 'Unknown tool: " \o name \o "'}"

-----------------------------------------------------------------------------
(* The collaborators: chat service, web search, web fetch.                 *)

\* The text the chat service replies with in round i when it replies with
\* text.  The first is the renderer example of the specification.
ReplyTexts ==
    << "Title: Example\n\nSome **bold** body text.\n\n- point one\n- point two",
       "## Why it matters\n\n \n\n[TechCrunch](https://techcrunch.com/a)",
       "SOURCE: https://techcrunch.com/b\n\n- one\n\n*",
       "1. Title\n2. Summary\n\n\n- late bullet",
       "No further news." >>

ReplyText(i) == ReplyTexts[((i - 1) % Len(ReplyTexts)) + 1]
NominalContent(i) == Str(ReplyText(i))
ReplyContents(i) == {NominalContent(i), Str(""), None, Absent}

SearchCall == [name |-> "web_search", args |-> {<<"query", "ai startups">>}]
FetchCall == [name |-> "web_fetch", args |-> {<<"url", "https://techcrunch.com/a">>}]
ToolCallChoices ==
    { SearchCall, FetchCall,
      [name |-> "web_search", args |-> {}],
      [name |-> "web_fetch", args |-> {<<"query", "ai startups">>}],
      [name |-> "web_crawl", args |-> {<<"url", "https://techcrunch.com/a">>}] }

RECURSIVE SeqsUpTo(_, _)
SeqsUpTo(S, n) ==
    IF n = 0 THEN {<<>>}
    ELSE LET shorter == SeqsUpTo(S, n - 1)
         IN  shorter \cup {Append(q, x) : q \in shorter, x \in S}

\* The tool_calls attribute a reply may have: missing, None, or a list of at
\* most MaxCalls calls.
ToolCallOptions ==
    {NoToolCalls, NoneToolCalls}
        \cup {ToolCalls(q) : q \in SeqsUpTo(ToolCallChoices, MaxCalls)}

\* A reply of client.chat (lines 60-100): response.message.
Reply(c, t) == [role |-> "assistant", content |-> c, tool_calls |-> t]

NominalResult == "{'results': []}"
\* str() of what a tool may return: short, exactly the cap, over the cap.
ResultTexts ==
    {NominalResult, Rep("r", TruncationCap), Rep("r", TruncationCap + 1)}
\* str() of what a tool may raise: short, and long enough that the message
\* of line 139 is exactly at and over the cap.
ErrorTexts ==
    {"timed out", Rep("e", TruncationCap - 7), Rep("e", TruncationCap - 6)}

\* Lines 116-125: what invoking the requested tool may do.
InvokeOutcomes(call) ==
    IF call.name = "web_search"
    THEN IF HasKey(call.args, "query")
         THEN {ReturnedText(t) : t \in ResultTexts}
                \cup {RaisedText(t) : t \in ErrorTexts}
         ELSE {RaisedText("'query'")}
    ELSE IF call.name = "web_fetch"
    THEN IF HasKey(call.args, "url")
         THEN {ReturnedText(t) : t \in ResultTexts}
                \cup {RaisedText(t) : t \in ErrorTexts}
         ELSE {RaisedText("'url'")}
    ELSE {ReturnedText(UnknownToolText(call.name))}

\* Non-nominal behaviour is counted against the budget: a reply without its
\* text, a call beyond the first of a reply, a call other than a well-formed
\* search, and a tool outcome other than the short result.
RECURSIVE CallsCost(_)
CallsCost(calls) ==
    IF calls = <<>> THEN 0
    ELSE (IF Head(calls) = SearchCall THEN 0 ELSE 1) + CallsCost(Tail(calls))

ContentCost(c, i) == IF c = NominalContent(i) THEN 0 ELSE 1

ToolCallsCost(t) ==
    CallsCost(t.calls) + (IF Len(t.calls) > 1 THEN Len(t.calls) - 1 ELSE 0)

MaxBudget ==
    IF MaxAnomalies >= MaxPipelineAnomalies
    THEN MaxAnomalies ELSE MaxPipelineAnomalies

\* The tool_calls attributes that cost at most b.
Affordable ==
    [b \in 0..MaxBudget |-> {t \in ToolCallOptions : ToolCallsCost(t) <= b}]

OutcomeCost(call, o) ==
    IF o = ReturnedText(NominalResult) \/ Cardinality(InvokeOutcomes(call)) = 1
    THEN 0 ELSE 1


-----------------------------------------------------------------------------
(* State shared by the actions.                                            *)

\* No tool was called yet.
NoInvocation ==
    [set |-> FALSE, call |-> SearchCall, outcome |-> ReturnedText("")]
Invocation(call, o) == [set |-> TRUE, call |-> call, outcome |-> o]

\* response before the first call of line 60.
NoReply == [role |-> "unbound", content |-> Absent, tool_calls |-> NoToolCalls]

Swallowed == "returned"

\* Where an exception that nothing catches ends: out of create_search_agent
\* when it was called directly; through the stage function and the handler
\* of main (lines 333-337, which re-raises) when main runs.
Uncaught == IF stage = "none" THEN "raised" ELSE "aborted"

\* Lines 40-55: create_search_agent(q, c) up to the loop, called by stage s.
Enter(s, q, c) ==
    /\ stage' = s
    /\ query' = q
    /\ context' = c
    /\ messages' = InitialMessages(q, c)
    /\ conversation_history' = <<>>
    /\ iteration' = 0
    /\ response' = NoReply
    /\ tc' = 0
    /\ ret' = NotReturned
    /\ chat_calls' = 0
    /\ invoked' = NoInvocation
    /\ pc' = "chat"

\* The locals of create_search_agent after it returned.
Discard ==
    /\ query' = ""
    /\ context' = Absent
    /\ messages' = <<>>
    /\ conversation_history' = <<>>
    /\ iteration' = 0
    /\ response' = NoReply
    /\ tc' = 0
    /\ ret' = NotReturned
    /\ chat_calls' = 0
    /\ invoked' = NoInvocation

PipelineIdle ==
    /\ news_data = Absent
    /\ ranked_news = Absent
    /\ detailed_summaries = Absent
    /\ content = Absent
    /\ elements = <<>>
    /\ pdf_file = Absent
    /\ outfile = "none"
    /\ failure = "none"

LoopIdle ==
    /\ stage = "none"
    /\ query = ""
    /\ context = Absent
    /\ messages = <<>>
    /\ conversation_history = <<>>
    /\ iteration = 0
    /\ response = NoReply
    /\ tc = 0
    /\ ret = NotReturned
    /\ chat_calls = 0
    /\ invoked = NoInvocation

-----------------------------------------------------------------------------
(* create_search_agent: the loop.                                          *)

\* Lines 57-109, 141-146: one round up to the reply of the chat service.
Chat ==
    /\ pc = "chat"
    /\ WhileCondition(iteration)
    /\ \E c \in ReplyContents(iteration + 1) :
        /\ anomalies + ContentCost(c, iteration + 1) <= budget
        /\ \E t \in Affordable[budget - anomalies - ContentCost(c, iteration + 1)] :
            LET reply == Reply(c, t)
            IN  /\ anomalies' = anomalies + ContentCost(c, iteration + 1)
                                  + ToolCallsCost(t)
                /\ iteration' = iteration + 1
                /\ response' = reply
                /\ conversation_history' = HistoryAfter(conversation_history, reply)
                /\ messages' = Append(messages, reply)
                /\ IF RequestsTools(reply)
                   THEN /\ tc' = 1
                        /\ pc' = "tools"
                        /\ UNCHANGED ret
                   ELSE /\ tc' = 0
                        /\ ret' = Returned(reply,
                                    HistoryAfter(conversation_history, reply))
                        /\ pc' = "returned"
    /\ chat_calls' = chat_calls + 1
    /\ UNCHANGED <<credential, stage, query, context, news_data, ranked_news,
                   detailed_summaries, content, elements, pdf_file, outfile,
                   invoked, failure, budget>>

\* Lines 58-100: client.chat raises; no handler encloses the call.
ChatError ==
    /\ pc = "chat"
    /\ WhileCondition(iteration)
    /\ iteration' = iteration + 1
    /\ chat_calls' = chat_calls + 1
    /\ pc' = Uncaught
    /\ failure' = "chat"
    /\ UNCHANGED <<credential, stage, query, context, messages,
                   conversation_history, response, tc, ret, news_data,
                   ranked_news, detailed_summaries, content, elements,
                   pdf_file, outfile, invoked, anomalies, budget>>

\* Lines 111-140 for one tool call, then the loop heads of lines 111 and 57.
InvokeTool ==
    /\ pc = "tools"
    /\ LET calls == response.tool_calls.calls
           call == calls[tc]
       IN  \E o \in InvokeOutcomes(call) :
            /\ anomalies + OutcomeCost(call, o) <= budget
            /\ anomalies' = anomalies + OutcomeCost(call, o)
            /\ messages' = Append(messages, ToolMessageFor(o))
            /\ invoked' = Invocation(call, o)
            /\ IF tc < Len(calls)
               THEN /\ tc' = tc + 1
                    /\ pc' = "tools"
                    /\ UNCHANGED ret
               ELSE /\ tc' = 0
                    /\ IF WhileCondition(iteration)
                       THEN /\ pc' = "chat"
                            /\ UNCHANGED ret
                       ELSE /\ pc' = "returned"
                            /\ ret' = Returned(response, conversation_history)
    /\ UNCHANGED <<credential, stage, query, context, conversation_history,
                   iteration, response, news_data, ranked_news,
                   detailed_summaries, content, elements, pdf_file, outfile,
                   chat_calls, failure, budget>>

\* The arguments create_search_agent is called with when it is run on its own.
LoopQueries == {"site:techcrunch.com ai startups"}
LoopContexts == {Str(""), Str("Earlier findings."), None}

\* One call create_search_agent(q, c), after lines 40-55.
Init ==
    /\ credential = Str("key")
    /\ \E q \in LoopQueries, c \in LoopContexts :
        /\ query = q
        /\ context = c
        /\ messages = InitialMessages(q, c)
    /\ stage = "none"
    /\ conversation_history = <<>>
    /\ iteration = 0
    /\ response = NoReply
    /\ tc = 0
    /\ ret = NotReturned
    /\ chat_calls = 0
    /\ invoked = NoInvocation
    /\ pc = "chat"
    /\ PipelineIdle
    /\ anomalies = 0
    /\ budget = MaxAnomalies

Next == Chat \/ ChatError \/ InvokeTool

Spec == Init /\ [][Next]_vars

-----------------------------------------------------------------------------
(* generate_pdf_report as an action.                                       *)

\* What the document backend (SimpleDocTemplate, Paragraph, doc.build) may
\* do with the elements: build the file, or raise, leaving no file or an
\* unfinished one.
BackendOutcomes == {"built", "error", "error_partial"}

\* Lines 215-297.  content.split raises AttributeError when content is not a
\* str; nothing in the function catches an exception.
GeneratePdfReport ==
    /\ pc = "render"
    /\ \E i \in 1..Len(Dates), j \in 1..Len(Dates), b \in BackendOutcomes :
        /\ i <= j
        /\ IF content.tag = "str" /\ b = "built"
           THEN /\ elements' = BuildElements(content.s, Dates[j].long)
                /\ pdf_file' = Str(FileName(Dates[i].ymd))
                /\ outfile' = "written"
                /\ pc' = "rendered"
                /\ UNCHANGED failure
           ELSE /\ elements' = <<>>
                /\ pdf_file' = Absent
                /\ outfile' = IF content.tag = "str" /\ b = "error_partial"
                              THEN "partial" ELSE outfile
                /\ pc' = Uncaught
                /\ failure' = "render"
    /\ UNCHANGED <<credential, stage, query, context, messages,
                   conversation_history, iteration, response, tc, ret,
                   news_data, ranked_news, detailed_summaries, content,
                   chat_calls, invoked, anomalies, budget>>

\* The texts the renderer is applied to on its own: every concatenation of
\* at most MaxPieces of these pieces, and the replies of the chat service.
RenderPieces ==
    { "\n\n", "\n", " ", "Title:", "SOURCE: x", "why it", "#", "**",
      "[a](b)", "- p", "x" }

RECURSIVE PieceTexts(_)
PieceTexts(n) ==
    IF n = 0 THEN {""}
    ELSE LET shorter == PieceTexts(n - 1)
         IN  shorter \cup {t \o x : t \in shorter, x \in RenderPieces}

RenderInputs ==
    PieceTexts(MaxPieces) \cup {ReplyTexts[i] : i \in 1..Len(ReplyTexts)}

\* One call generate_pdf_report(content) on a str.
InitRender ==
    /\ credential = Str("key")
    /\ pc = "render"
    /\ content \in {Str(t) : t \in RenderInputs}
    /\ LoopIdle
    /\ news_data = Absent
    /\ ranked_news = Absent
    /\ detailed_summaries = Absent
    /\ elements = <<>>
    /\ pdf_file = Absent
    /\ outfile = "none"
    /\ failure = "none"
    /\ anomalies = 0
    /\ budget = 0

NextRender == GeneratePdfReport

SpecRender == InitRender /\ [][NextRender]_vars

-----------------------------------------------------------------------------
(* The process: module level, main and the three stages.                   *)

\* Line 161.
GatherQuery ==
    "site:techcrunch.com artificial intelligence startups latest "
    \o "news"
\* Line 165.
GatherContext ==
    "Find the most important AI and startup news from TechCrunch "
    \o "in the last week. Focus on breakthrough announcements, fundi"
    \o "ng rounds, and major product launches."
\* Lines 179-187.
RankQuery ==
    "Based on the news you found, identify the TOP 5 most importa"
    \o "nt and breakthrough stories.\n    \n    For each story, provid"
    \o "e:\n    1. Title\n    2. Brief summary (2-3 sentences)\n    3. "
    \o "Why it's important\n    4. Source URL\n    \n    Focus on: Majo"
    \o "r funding announcements, breakthrough AI technologies, signi"
    \o "ficant partnerships, and disruptive startups."
\* Lines 202-208.
ElaborateQuery ==
    "For each of the top stories you identified, create a detaile"
    \o "d summary (4-5 sentences) that includes:\n    - What happened"
    \o "\n    - Who is involved\n    - Why it matters for the AI and s"
    \o "tartup ecosystem\n    - Potential impact\n    \n    Format each"
    \o " story clearly with the title, URL, and detailed summary."

\* What os.getenv('OLLAMA_API_KEY') may give (line 24).
Credentials == {None, Str(""), Str("key")}

CredentialNotChecked(v) == FALSE

\* Line 25.
CredentialMissing(v) == ~Truthy(v)

\* Line 318: the argument of analyze_and_rank_news, its context (line 189).
RankContext(news, ranked, detailed) == news
ElaborateContextStale(news, ranked, detailed) == news

\* Line 321: the argument of create_detailed_summaries, its context (line 210).
ElaborateContext(news, ranked, detailed) == ranked
\* Line 324: the argument of generate_pdf_report.
RendererInput(news, ranked, detailed) == detailed

\* Lines 16-33: the module is loaded.
ModuleLevel ==
    /\ pc = "import"
    /\ pc' = IF CredentialMissing(credential) THEN "fatal" ELSE "ready"
    /\ failure' = IF CredentialMissing(credential) THEN "credential" ELSE failure
    /\ UNCHANGED <<credential, stage, query, context, messages,
                   conversation_history, iteration, response, tc, ret,
                   news_data, ranked_news, detailed_summaries, content,
                   elements, pdf_file, outfile, chat_calls, invoked, anomalies,
                   budget>>

\* Lines 340-342, 300-315, 149-166: main starts and calls the first stage.
GatherNews ==
    /\ pc = "ready"
    /\ Enter("gather", GatherQuery, Str(GatherContext))
    /\ UNCHANGED <<credential, news_data, ranked_news, detailed_summaries,
                   content, elements, pdf_file, outfile, failure, anomalies,
                   budget>>

\* Lines 315-318, 171-189: the first stage returned; the second is called.
AnalyzeAndRank ==
    /\ pc = "returned"
    /\ stage = "gather"
    /\ news_data' = ret.final_content
    /\ Enter("rank", RankQuery,
             RankContext(ret.final_content, ranked_news, detailed_summaries))
    /\ UNCHANGED <<credential, ranked_news, detailed_summaries, content,
                   elements, pdf_file, outfile, failure, anomalies, budget>>

\* Lines 318-321, 194-210: the second stage returned; the third is called.
CreateDetailedSummaries ==
    /\ pc = "returned"
    /\ stage = "rank"
    /\ ranked_news' = ret.final_content
    /\ Enter("elaborate", ElaborateQuery,
             ElaborateContext(news_data, ret.final_content, detailed_summaries))
    /\ UNCHANGED <<credential, news_data, detailed_summaries, content,
                   elements, pdf_file, outfile, failure, anomalies, budget>>

\* Lines 321-324: the third stage returned; generate_pdf_report is called.
\* The locals of create_search_agent no longer exist.
CallRenderer ==
    /\ pc = "returned"
    /\ stage = "elaborate"
    /\ detailed_summaries' = ret.final_content
    /\ content' = RendererInput(news_data, ranked_news, ret.final_content)
    /\ stage' = "render"
    /\ pc' = "render"
    /\ Discard
    /\ UNCHANGED <<credential, news_data, ranked_news, elements, pdf_file,
                   outfile, failure, anomalies, budget>>

\* The process before the module is loaded.
InitMain ==
    /\ credential \in Credentials
    /\ pc = "import"
    /\ LoopIdle
    /\ PipelineIdle
    /\ anomalies = 0
    /\ budget = MaxPipelineAnomalies

NextMain ==
    \/ ModuleLevel
    \/ GatherNews
    \/ Chat
    \/ ChatError
    \/ InvokeTool
    \/ AnalyzeAndRank
    \/ CreateDetailedSummaries
    \/ CallRenderer
    \/ GeneratePdfReport

SpecMain == InitMain /\ [][NextMain]_vars


-----------------------------------------------------------------------------
(* Properties of create_search_agent, checked under Spec.                  *)

IsAssistant(m) == m.role = "assistant"
IsTool(m) == m.role = "tool"
Last(q) == q[Len(q)]

\* The replies received so far, in round order.
RepliesSoFar == SelectSeq(messages, IsAssistant)

\* C1: one run calls the chat service at most 5 times; the loop goes on only
\* while every reply so far requested a tool call, so it returns right after
\* the first reply that requests none; and when it returns after a reply that
\* requested a tool call, exactly 5 rounds were made.
C1_AtMostFiveRounds ==
    /\ chat_calls <= 5
    /\ pc \in {"chat", "tools", "returned"} => chat_calls = Len(RepliesSoFar)
    /\ pc = "chat" => chat_calls < 5
    /\ pc \in {"chat", "tools"} =>
          \A k \in 1..Len(RepliesSoFar) : RequestsTools(RepliesSoFar[k])
    /\ pc = "returned" =>
          /\ chat_calls >= 1
          /\ \A k \in 1..(chat_calls - 1) : RequestsTools(RepliesSoFar[k])
          /\ RequestsTools(Last(RepliesSoFar)) => chat_calls = 5

C1_Witness_CapReached ==
    /\ pc = "returned"
    /\ chat_calls = 5
    /\ RequestsTools(response)

\* C2: a tool invocation that raises does not end the run with an exception:
\* the step appends one tool message whose content contains the text of the
\* exception, and control goes on as after any call: to the next call of the
\* reply if one remains, otherwise to the next round, or to the normal return
\* when that was round 5.
C2_ToolFailureAbsorbed ==
    [][ (pc = "tools" /\ invoked'.outcome.raised) =>
          /\ invoked'.call = response.tool_calls.calls[tc]
          /\ Len(messages') = Len(messages) + 1
          /\ SubSeq(messages', 1, Len(messages)) = messages
          /\ IsTool(Last(messages'))
          /\ Contains(Last(messages').content.s, invoked'.outcome.text)
          /\ failure' = "none"
          /\ IF tc < Len(response.tool_calls.calls)
             THEN pc' = "tools" /\ tc' = tc + 1
             ELSE IF iteration < 5
                  THEN pc' = "chat"
                  ELSE pc' = "returned" /\ ret'.set ]_vars

\* A failed call was followed by the next call of the same reply, and the
\* loop is at the next round.
C2_Witness_FailureThenNextRound ==
    /\ pc = "chat"
    /\ iteration = 1
    /\ Len(messages) = 5
    /\ IsTool(messages[4])
    /\ StartsWith(messages[4].content.s, "Error: timed out")
    /\ IsTool(messages[5])

\* C3: every tool message of the conversation has content of length at most
\* 8000, whatever the tool invocation did.
C3_ToolContentWithinCap ==
    \A k \in 1..Len(messages) :
        IsTool(messages[k]) => Len(messages[k].content.s) <= 8000

\* The text of the reply, "" when the reply carries none.
TextOf(reply) == IF Truthy(reply.content) THEN reply.content.s ELSE ""

RECURSIVE NonEmptyTexts(_)
NonEmptyTexts(replies) ==
    IF replies = <<>> THEN <<>>
    ELSE (IF TextOf(Head(replies)) = "" THEN <<>> ELSE <<TextOf(Head(replies))>>)
         \o NonEmptyTexts(Tail(replies))

\* C9: when the run returns, the first result is the text of the last reply,
\* the empty string when that reply carried no text, and the second result
\* holds the non-empty reply texts of the rounds made, in round order.
C9_ReturnsLastTextAndHistory ==
    pc = "returned" =>
        /\ ret.set
        /\ ret.final_content = Str(TextOf(Last(RepliesSoFar)))
        /\ ret.history = NonEmptyTexts(RepliesSoFar)
        /\ Len(ret.history) <= 5

\* The tool messages that directly follow position k of the conversation.
RECURSIVE ToolRun(_, _)
ToolRun(q, k) ==
    IF k < Len(q) /\ IsTool(q[k + 1]) THEN 1 + ToolRun(q, k + 1) ELSE 0

\* The number of tool calls a reply requests.
NumCalls(m) == IF m.tool_calls.tag = "list" THEN Len(m.tool_calls.calls) ELSE 0

\* The shape of the conversation: [system message, user message], then each
\* reply followed by its tool messages.
C10_Shape ==
    /\ Len(messages) >= 2
    /\ messages[1] = Message("system", SystemPrompt)
    /\ messages[2].role = "user"
    /\ messages[2].content.s \in {query, context.s \o "\n\n" \o query}
    /\ (context.s = "" => messages[2].content.s = query)
    /\ \A k \in 3..Len(messages) :
          /\ messages[k].role \in {"assistant", "tool"}
          /\ IsAssistant(messages[k]) =>
                ToolRun(messages, k) =
                    IF k + ToolRun(messages, k) = Len(messages) /\ pc = "tools"
                    THEN tc - 1
                    ELSE NumCalls(messages[k])
    /\ Len(messages) >= 3 => IsAssistant(messages[3])
    /\ pc = "tools" => /\ tc \in 1..NumCalls(response)
                       /\ response = Last(RepliesSoFar)

\* A step keeps the conversation it found as a prefix and appends at most one
\* message to it.
C10_AppendOnly ==
    [][ /\ Len(messages') >= Len(messages)
        /\ SubSeq(messages', 1, Len(messages)) = messages
        /\ pc = "chat" =>
              \/ messages' = messages
              \/ /\ Len(messages') = Len(messages) + 1
                 /\ IsAssistant(Last(messages'))
        /\ pc = "tools" =>
              /\ Len(messages') = Len(messages) + 1
              /\ IsTool(Last(messages'))
              /\ invoked'.call = response.tool_calls.calls[tc]
              /\ Last(messages') = ToolMessageFor(invoked'.outcome)
              /\ (tc' = tc + 1 \/ pc' # "tools") ]_vars

\* C10: the conversation starts as [system message, user message]; a step
\* only appends to it; every reply is followed by one tool message per tool
\* call it requested before the next reply, the calls being handled in the
\* order requested, and all of them before the chat service is called again.
C10_AppendOnlyConversation == []C10_Shape /\ C10_AppendOnly

\* A round with two calls, one of an unknown tool and one that failed, is
\* complete and the next round has begun.
C10_Witness_TwoCallsHandled ==
    /\ pc = "tools"
    /\ iteration = 2
    /\ NumCalls(messages[3]) = 2
    /\ IsTool(messages[4])
    /\ IsTool(messages[5])
    /\ IsAssistant(messages[6])


-----------------------------------------------------------------------------
(* Properties of the process, checked under SpecMain.                      *)

StageOrder ==
    { <<"none", "gather">>, <<"gather", "rank">>, <<"rank", "elaborate">>,
      <<"elaborate", "render">> }

\* C4: the stages start in the order Gather, Rank, Elaborate, renderer, each
\* one only when the call before it has returned; the context given to Rank
\* is the text Gather returned, the context given to Elaborate is the text
\* Rank returned, and the renderer is given the text Elaborate returned.
C4_StagesInOrderVerbatim ==
    [][ stage' # stage =>
          /\ <<stage, stage'>> \in StageOrder
          /\ stage = "none" => pc = "ready" /\ pc' = "chat"
          /\ stage # "none" => pc = "returned" /\ ret.set
          /\ stage' = "rank" =>
                context' = ret.final_content /\ query' = RankQuery /\ pc' = "chat"
          /\ stage' = "elaborate" =>
                context' = ret.final_content /\ query' = ElaborateQuery /\ pc' = "chat"
          /\ stage' = "render" =>
                content' = ret.final_content /\ pc' = "render" ]_vars

\* The renderer is being called after three stages that returned three
\* different texts.
C4_Witness_RendererCalled ==
    /\ pc = "render"
    /\ stage = "render"
    /\ content.tag = "str"
    /\ content = detailed_summaries
    /\ news_data # ranked_news
    /\ ranked_news # detailed_summaries
    /\ news_data # detailed_summaries
    /\ Truthy(news_data)
    /\ Truthy(ranked_news)

\* The state the process is left in by a failed call of the chat service.
C5_AbortedState ==
    failure = "chat" =>
        /\ pc = "aborted"
        /\ stage \in {"gather", "rank", "elaborate"}
        /\ ~ret.set
        /\ content = Absent
        /\ elements = <<>>
        /\ pdf_file = Absent
        /\ outfile = "none"

\* C5: when a call of the chat service fails, the exception leaves
\* create_search_agent and main: the process is aborted in the stage that
\* made the call, nothing runs afterwards, the renderer is never called and
\* no output file exists.
C5_ChatFailureAborts ==
    []C5_AbortedState /\ [][failure # "chat"]_vars

\* The chat service failed in the second stage, in a round after the first.
C5_Witness_FailedInLaterStage ==
    /\ failure = "chat"
    /\ stage = "rank"
    /\ chat_calls = 3
    /\ pc = "aborted"

\* C6: when os.getenv gives no credential, the process ends at module level:
\* main is never entered, the chat service and the tools are never called
\* and nothing is rendered.
C6_MissingCredentialIsFatal ==
    credential = None =>
        /\ pc \in {"import", "fatal"}
        /\ stage = "none"
        /\ chat_calls = 0
        /\ messages = <<>>
        /\ ~invoked.set
        /\ content = Absent
        /\ elements = <<>>
        /\ outfile = "none"

C6_Witness_Fatal ==
    /\ credential = None
    /\ pc = "fatal"
    /\ failure = "credential"

-----------------------------------------------------------------------------
(* Properties of generate_pdf_report, checked under SpecRender.            *)

\* A paragraph with a character that is not whitespace.
NonBlank(para) == \E i \in 1..Len(para) : CharAt(para, i) \notin Whitespace

RECURSIVE Join(_, _)
Join(parts, sep) ==
    IF Len(parts) = 1 THEN parts[1]
    ELSE parts[1] \o sep \o Join(Tail(parts), sep)

\* The paragraphs of the content: the pieces between the double line breaks.
ParagraphsOf(text) == Split(text, "\n\n")

\* The positions of the paragraphs that are kept, in order.
KeptPositions(paras) == {i \in 1..Len(paras) : NonBlank(paras[i])}
Rank(S, i) == Cardinality({j \in S : j <= i})

\* C7: after the title, the dated subtitle and the spacer, the elements are
\* one paragraph element for every paragraph of the text that is not blank,
\* in the order of the text; a blank paragraph gives no element.
C7_OneElementPerParagraph ==
    pc = "rendered" =>
        LET paras == ParagraphsOf(content.s)
            kept == KeptPositions(paras)
        IN  /\ Join(paras, "\n\n") = content.s
            /\ \A i \in 1..Len(paras) : ~Contains(paras[i], "\n\n")
            /\ Len(elements) = 3 + Cardinality(kept)
            /\ elements[1] = Paragraph("TechCrunch AI & Startup Newsletter", "title")
            /\ elements[2].style = "heading"
            /\ \E d \in 1..Len(Dates) :
                  elements[2].text = "Weekly Report - " \o Dates[d].long
            /\ elements[3].kind = "Spacer"
            /\ \A i \in kept :
                  /\ elements[3 + Rank(kept, i)].kind = "Paragraph"
                  /\ elements[3 + Rank(kept, i)].text =
                        ConvertBullets(CleanMarkup(paras[i]))

\* A text with a blank paragraph between two that are kept.
C7_Witness_BlankParagraphSkipped ==
    /\ pc = "rendered"
    /\ content.s = ReplyTexts[2]
    /\ Len(ParagraphsOf(content.s)) = 3
    /\ Len(elements) = 5

MarkupCharacters == {"#", "*", "[", "]", "(", ")"}

=============================================================================
